---- MODULE Spec2Model ----
(***************************************************************************)
(* Model of the Wi-Fi connection supervisor of src/wifi_api.c.             *)
(*                                                                         *)
(* Two execution contexts act on the file-scope state: the caller's thread *)
(* (wifi_api_configure, wifi_api_disconnect, wifi_api_alter_sta) and the   *)
(* event-delivery context of the network stack, which invokes              *)
(* wifi_api_event_handler.  The network stack itself is not part of the    *)
(* repository: the result of every call into it, and the notification it   *)
(* delivers next, are inputs of the actions.                               *)
(***************************************************************************)
EXTENDS Integers, Sequences, FiniteSets, TLC

\* ------------------------------------------------------------------ bounds

\* Most live registrations per subscription / live semaphores the model
\* follows (every wifi_api_configure call makes one more of each).
MaxInstances == 2

\* Most connect commands the network stack has not answered yet.
MaxPending == 1

\* Most access points a scan of the network stack finds.
MaxFound == 11

\* --------------------------------------------------------- program constants

MAX_RETRY == 10

ESP_OK == "ESP_OK"
ESP_FAIL == "ESP_FAIL"
\* Any error code of the network stack other than ESP_OK.
ESP_ERR == "ESP_ERR"

\* event_id values the handler is invoked with; OTHER stands for every id
\* that reaches the default label of the switch.
WIFI_EVENT_STA_START == "WIFI_EVENT_STA_START"
WIFI_EVENT_STA_DISCONNECTED == "WIFI_EVENT_STA_DISCONNECTED"
IP_EVENT_STA_GOT_IP == "IP_EVENT_STA_GOT_IP"
OTHER_EVENT == "OTHER_EVENT"

WifiEvents == {WIFI_EVENT_STA_START, WIFI_EVENT_STA_DISCONNECTED, OTHER_EVENT}
Events == WifiEvents \cup {IP_EVENT_STA_GOT_IP}

Min(a, b) == IF a < b THEN a ELSE b

\* -------------------------------------------------------------------- state

VARIABLES
  pc,               \* caller thread: "idle", "blocked" (in xSemaphoreTake), "aborted"
  ret,              \* value returned by the last API call that returned, or "none"
  s_retry_num,      \* static int s_retry_num
  s_ip_semaphore,   \* handle: "NULL", "live" (a live semaphore), "deleted" (dangling)
  semCount,         \* count (0 or 1) of the semaphore s_ip_semaphore refers to
  liveSems,         \* semaphores created and not deleted, referenced or not
  instance_any_id,  \* handle: "NULL", "reg" (a live registration), "stale"
  instance_got_ip,  \* handle: "NULL", "reg", "stale"
  regAny,           \* live registrations of the handler for WIFI_EVENT / any id
  regIp,            \* live registrations of the handler for IP_EVENT_STA_GOT_IP
  shutdownHook,     \* wifi_api_shutdown is registered as a shutdown handler
  pendingConnect,   \* connect commands the network stack has not answered
  state,            \* supervisor state named by the branch last taken
  lastOp,           \* the operation or event_id of the last step
  calls,            \* calls into the network stack / RTOS made by the last step
  collabErr,        \* first call of the last step that reported an error, or "none"
  signalBy,         \* which branch raised the pending signal: "none", "got_ip", "exhausted"
  discRun,          \* disconnect notifications handled since s_retry_num was last 0
  runGives,         \* xSemaphoreGive calls of the handler in that run
  absorbed          \* disconnects retried while the caller of configure is blocked

vars == <<pc, ret, s_retry_num, s_ip_semaphore, semCount, liveSems,
          instance_any_id, instance_got_ip, regAny, regIp, shutdownHook,
          pendingConnect, state, lastOp, calls, collabErr, signalBy,
          discRun, runGives, absorbed>>

Init ==
  /\ pc = "idle"
  /\ ret = "none"
  /\ s_retry_num = 0
  /\ s_ip_semaphore = "NULL"
  /\ semCount = 0
  /\ liveSems = 0
  /\ instance_any_id = "NULL"
  /\ instance_got_ip = "NULL"
  /\ regAny = 0
  /\ regIp = 0
  /\ shutdownHook = FALSE
  /\ pendingConnect = 0
  /\ state = "Idle"
  /\ lastOp = "init"
  /\ calls = <<>>
  /\ collabErr = "none"
  /\ signalBy = "none"
  /\ discRun = 0
  /\ runGives = 0
  /\ absorbed = 0

\* ------------------------------------------------------- the event handler

\* The switch of wifi_api_event_handler (lines 120-155) on event_id ev when
\* s_retry_num = retry: the new s_retry_num, the calls made, in order, and
\* the label of the branch taken.
EventSwitch(ev, retry) ==
  CASE ev = WIFI_EVENT_STA_START ->
         [retry |-> retry, calls |-> <<"esp_wifi_connect">>, branch |-> "start"]
    [] ev = WIFI_EVENT_STA_DISCONNECTED ->
         IF retry < MAX_RETRY
           THEN [retry |-> retry + 1, calls |-> <<"esp_wifi_connect">>,
                 branch |-> "retry"]
           ELSE [retry |-> retry, calls |-> <<"xSemaphoreGive">>,
                 branch |-> "exhausted"]
    [] ev = IP_EVENT_STA_GOT_IP ->
         [retry |-> 0, calls |-> <<"xSemaphoreGive">>, branch |-> "got_ip"]
    [] OTHER ->
         [retry |-> retry, calls |-> <<>>, branch |-> "default"]

\* Variants of the handler with one plausible fault each.

\* The retry branch forgets s_retry_num++.
HandleEvent_NoIncrement(ev, retry) ==
  IF ev = WIFI_EVENT_STA_DISCONNECTED /\ retry < MAX_RETRY
    THEN [EventSwitch(ev, retry) EXCEPT !.retry = retry]
    ELSE EventSwitch(ev, retry)

\* The retry test reads s_retry_num <= MAX_RETRY.
HandleEvent_OffByOne(ev, retry) ==
  IF ev = WIFI_EVENT_STA_DISCONNECTED /\ retry = MAX_RETRY
    THEN [retry |-> retry + 1, calls |-> <<"esp_wifi_connect">>, branch |-> "retry"]
    ELSE EventSwitch(ev, retry)

\* The retry test reads s_retry_num < MAX_RETRY - 1.
HandleEvent_ShortBudget(ev, retry) ==
  IF ev = WIFI_EVENT_STA_DISCONNECTED /\ retry = MAX_RETRY - 1
    THEN [retry |-> retry, calls |-> <<"xSemaphoreGive">>, branch |-> "exhausted"]
    ELSE EventSwitch(ev, retry)

\* The address-acquired branch forgets s_retry_num = 0.
HandleEvent_NoReset(ev, retry) ==
  IF ev = IP_EVENT_STA_GOT_IP
    THEN [EventSwitch(ev, retry) EXCEPT !.retry = retry]
    ELSE EventSwitch(ev, retry)

\* The exhausted branch forgets xSemaphoreGive.
HandleEvent_NoGiveOnFail(ev, retry) ==
  IF ev = WIFI_EVENT_STA_DISCONNECTED /\ retry >= MAX_RETRY
    THEN [EventSwitch(ev, retry) EXCEPT !.calls = <<>>]
    ELSE EventSwitch(ev, retry)

\* The retry branch also gives the semaphore.
HandleEvent_GiveOnRetry(ev, retry) ==
  IF ev = WIFI_EVENT_STA_DISCONNECTED /\ retry < MAX_RETRY
    THEN [EventSwitch(ev, retry) EXCEPT
            !.calls = <<"esp_wifi_connect", "xSemaphoreGive">>]
    ELSE EventSwitch(ev, retry)

\* What one invocation of wifi_api_event_handler does (lines 117-156).
HandleEvent(ev, retry) == EventSwitch(ev, retry)

\* Supervisor state after a branch of the handler, st being the state before.
StateAfter(branch, st) ==
  CASE branch = "retry" -> "Connecting"
    [] branch = "exhausted" -> "Failed"
    [] branch = "got_ip" -> "Connected"
    [] OTHER -> st

\* Outcomes of xSemaphoreGive(s_ip_semaphore) by the handle's status: a live
\* binary semaphore ends full; a null handle stops the program; a dangling
\* handle is a use after free, which may stop the program or go unnoticed.
GiveOutcomes(handle) ==
  CASE handle = "live" -> {"given"}
    [] handle = "NULL" -> {"crash"}
    [] OTHER -> {"crash", "unnoticed"}

\* Variant: s_ip_semaphore is created as a counting semaphore.
GiveCount_Counting(count) == count + 1

\* Count of the semaphore after xSemaphoreGive on it: xSemaphoreCreateBinary
\* (line 196) makes a semaphore that holds at most one give.
GiveCount(count) == IF count = 0 THEN count + 1 ELSE count

Has(cs, c) == \E i \in 1..Len(cs) : cs[i] = c

\* Connect commands not yet answered, after a step that received `answers`
\* terminal notifications and issued `issued` connect commands.
PendingAfter(pending, answers, issued) ==
  Min(MaxPending, (IF pending >= answers THEN pending - answers ELSE 0) + issued)

wifi_api_event_handler(ev) ==
  /\ pc # "aborted"
  /\ IF ev = IP_EVENT_STA_GOT_IP THEN regIp > 0 ELSE regAny > 0
  /\ LET h == HandleEvent(ev, s_retry_num)
         gives == Has(h.calls, "xSemaphoreGive")
         connects == IF Has(h.calls, "esp_wifi_connect") THEN 1 ELSE 0
         answers == IF ev \in {WIFI_EVENT_STA_DISCONNECTED, IP_EVENT_STA_GOT_IP}
                      THEN 1 ELSE 0
     IN /\ s_retry_num' = h.retry
        /\ calls' = h.calls
        /\ state' = StateAfter(h.branch, state)
        /\ lastOp' = ev
        /\ pendingConnect' = PendingAfter(pendingConnect, answers, connects)
        /\ discRun' = CASE ev = IP_EVENT_STA_GOT_IP -> 0
                        [] ev = WIFI_EVENT_STA_DISCONNECTED ->
                             Min(discRun + 1, MAX_RETRY + 2)
                        [] OTHER -> discRun
        /\ runGives' = CASE ev = IP_EVENT_STA_GOT_IP -> 0
                         [] gives -> Min(runGives + 1, 2)
                         [] OTHER -> runGives
        /\ absorbed' = IF h.branch = "retry" /\ pc = "blocked" /\ signalBy = "none"
                         THEN Min(absorbed + 1, MAX_RETRY + 1)
                         ELSE absorbed
        /\ IF gives
             THEN \E out \in GiveOutcomes(s_ip_semaphore) :
                    /\ pc' = IF out = "crash" THEN "aborted" ELSE pc
                    /\ semCount' = IF out = "given" THEN GiveCount(semCount)
                                                    ELSE semCount
                    /\ signalBy' = IF out = "given" /\ semCount = 0
                                     THEN h.branch ELSE signalBy
             ELSE UNCHANGED <<pc, semCount, signalBy>>
  /\ UNCHANGED <<ret, s_ip_semaphore, liveSems, instance_any_id,
                 instance_got_ip, regAny, regIp, shutdownHook, collabErr>>

EventHandler == \E ev \in Events : wifi_api_event_handler(ev)

\* ------------------------------------------------------ wifi_api_configure

\* The calls wifi_api_configure makes before it blocks, in order.
ConfigureCalls ==
  << "nvs_flash_init", "xSemaphoreCreateBinary", "esp_netif_init",
     "esp_event_loop_create_default", "esp_wifi_init", "esp_netif_create_wifi",
     "esp_wifi_set_default_wifi_sta_handlers", "esp_wifi_set_storage",
     "esp_wifi_set_mode", "esp_wifi_start", "register:any_id",
     "register:got_ip", "esp_wifi_set_config", "esp_wifi_connect" >>

\* The calls whose result the code ignores.
ConfigureUnchecked == {6, 7}

\* The calls whose failure ends wifi_api_configure (ESP_ERROR_CHECK aborts;
\* a null semaphore returns ESP_FAIL).
ConfigureChecked == (1..Len(ConfigureCalls)) \ ConfigureUnchecked

\* Variant: the null test of s_ip_semaphore (lines 197-201) is missing.
ConfigureExit_NoNullTest(failAt) ==
  IF failAt \in ConfigureChecked \ {2} THEN "aborted" ELSE "blocked"

\* How a wifi_api_configure call whose call number failAt reported an error
\* (0: none did) leaves the caller: blocked in xSemaphoreTake, returned, or
\* aborted.
ConfigureExit(failAt) ==
  CASE failAt = 2 -> "idle"
    [] failAt \in ConfigureChecked -> "aborted"
    [] OTHER -> "blocked"

\* Lines 193-249.  failAt: the call that reports an error (0: none).
\* s_sta_netif, which only wifi_api_shutdown reads, is left out of the state.
wifi_api_configure(failAt) ==
  /\ pc = "idle"
  /\ regAny < MaxInstances /\ regIp < MaxInstances /\ liveSems < MaxInstances
  /\ LET n == IF ConfigureExit(failAt) = "blocked"
                THEN Len(ConfigureCalls) ELSE failAt
         Done(k) == n >= k /\ failAt # k
         One(k) == IF Done(k) THEN 1 ELSE 0
     IN /\ calls' = SubSeq(ConfigureCalls, 1, n)
        /\ collabErr' = IF failAt = 0 THEN "none" ELSE ConfigureCalls[failAt]
        /\ s_ip_semaphore' = CASE Done(2) -> "live"
                               [] failAt = 2 -> "NULL"
                               [] OTHER -> s_ip_semaphore
        /\ semCount' = IF n >= 2 THEN 0 ELSE semCount
        /\ signalBy' = IF n >= 2 THEN "none" ELSE signalBy
        /\ liveSems' = liveSems + One(2)
        /\ regAny' = regAny + One(11)
        /\ instance_any_id' = IF Done(11) THEN "reg" ELSE instance_any_id
        /\ regIp' = regIp + One(12)
        /\ instance_got_ip' = IF Done(12) THEN "reg" ELSE instance_got_ip
        /\ pendingConnect' = PendingAfter(pendingConnect, 0, One(14))
        /\ state' = IF Done(14) THEN "Connecting" ELSE state
        /\ pc' = ConfigureExit(failAt)
        /\ ret' = IF ConfigureExit(failAt) = "idle" THEN ESP_FAIL ELSE "none"
  /\ lastOp' = "wifi_api_configure"
  /\ absorbed' = 0
  /\ UNCHANGED <<s_retry_num, shutdownHook, discRun, runGives>>

\* Lines 256-257: the result wifi_api_configure decides on after the take.
ConfigureResult(retry) == IF retry > MAX_RETRY THEN ESP_FAIL ELSE ESP_OK

\* Lines 254-262: xSemaphoreTake returns, then the result is decided.
\* hookOk: esp_register_shutdown_handler succeeded.
wifi_api_configure_wake(hookOk) ==
  /\ pc = "blocked"
  /\ s_ip_semaphore = "live" /\ semCount = 1
  /\ semCount' = 0
  /\ signalBy' = "none"
  /\ absorbed' = 0
  /\ lastOp' = "wifi_api_configure_wake"
  /\ IF ConfigureResult(s_retry_num) = ESP_FAIL
       THEN /\ calls' = <<"xSemaphoreTake">>
            /\ pc' = "idle"
            /\ ret' = ESP_FAIL
            /\ collabErr' = "none"
            /\ UNCHANGED shutdownHook
       ELSE /\ calls' = <<"xSemaphoreTake", "esp_register_shutdown_handler">>
            /\ pc' = IF hookOk THEN "idle" ELSE "aborted"
            /\ ret' = IF hookOk THEN ESP_OK ELSE "none"
            /\ collabErr' = IF hookOk THEN "none" ELSE "esp_register_shutdown_handler"
            /\ shutdownHook' = (shutdownHook \/ hookOk)
  /\ UNCHANGED <<s_retry_num, s_ip_semaphore, liveSems, instance_any_id,
                 instance_got_ip, regAny, regIp, pendingConnect, state, discRun,
                 runGives>>

Configure == \E failAt \in 0..Len(ConfigureCalls) : wifi_api_configure(failAt)

ConfigureWake == \E hookOk \in BOOLEAN : wifi_api_configure_wake(hookOk)

\* ----------------------------------------------------- wifi_api_disconnect

\* Outcomes of vSemaphoreDelete(s_ip_semaphore) by the handle's status:
\* deleting a semaphore already deleted is a double free, which may stop the
\* program or go unnoticed.
DeleteOutcomes(handle) ==
  CASE handle = "live" -> {"deleted"}
    [] OTHER -> {"crash", "unnoticed"}

\* Lines 273-274: the handles wifi_api_disconnect passes to vSemaphoreDelete.
DeletesSemaphore(handle) == handle # "NULL"

\* A handle after esp_event_handler_instance_unregister succeeded on it: the
\* code leaves the variable as it is, so a registered handle dangles.
HandleAfterUnregister(handle) == IF handle = "reg" THEN "stale" ELSE handle

\* Lines 265-277.  failAt: the first call of the network stack that reports
\* an error (0: none; 1, 2: the unregister calls, which abort; 3:
\* esp_wifi_disconnect, whose result is returned); delOut: the outcome of
\* vSemaphoreDelete.
wifi_api_disconnect(failAt, delOut) ==
  /\ pc = "idle"
  /\ LET unreg1 == "unregister:any_id:" \o instance_any_id
         unreg2 == "unregister:got_ip:" \o instance_got_ip
         delete == "vSemaphoreDelete:" \o s_ip_semaphore
         deletes == failAt \notin {1, 2} /\ DeletesSemaphore(s_ip_semaphore)
         crash == deletes /\ delOut = "crash"
         ok1 == failAt # 1
         ok2 == failAt \notin {1, 2}
     IN /\ delOut \in DeleteOutcomes(s_ip_semaphore)
        /\ calls' = CASE failAt = 1 -> <<unreg1>>
                      [] failAt = 2 -> <<unreg1, unreg2>>
                      [] crash -> <<unreg1, unreg2, delete>>
                      [] deletes -> <<unreg1, unreg2, delete, "esp_wifi_disconnect">>
                      [] OTHER -> <<unreg1, unreg2, "esp_wifi_disconnect">>
        /\ collabErr' = CASE failAt = 1 -> unreg1
                          [] failAt = 2 -> unreg2
                          [] failAt = 3 /\ ~crash -> "esp_wifi_disconnect"
                          [] OTHER -> "none"
        /\ regAny' = IF ok1 /\ instance_any_id = "reg" THEN regAny - 1 ELSE regAny
        /\ instance_any_id' = IF ok1 THEN HandleAfterUnregister(instance_any_id)
                                     ELSE instance_any_id
        /\ regIp' = IF ok2 /\ instance_got_ip = "reg" THEN regIp - 1 ELSE regIp
        /\ instance_got_ip' = IF ok2 THEN HandleAfterUnregister(instance_got_ip)
                                     ELSE instance_got_ip
        /\ s_ip_semaphore' = IF deletes THEN "deleted" ELSE s_ip_semaphore
        /\ liveSems' = IF deletes /\ s_ip_semaphore = "live"
                         THEN liveSems - 1 ELSE liveSems
        /\ pc' = IF failAt \in {1, 2} \/ crash THEN "aborted" ELSE "idle"
        /\ ret' = CASE failAt \in {1, 2} \/ crash -> "none"
                    [] failAt = 3 -> ESP_ERR
                    [] OTHER -> ESP_OK
  /\ lastOp' = "wifi_api_disconnect"
  /\ UNCHANGED <<s_retry_num, semCount, shutdownHook, pendingConnect, state,
                 signalBy, discRun, runGives, absorbed>>

Disconnect ==
  \E failAt \in 0..3, delOut \in {"deleted", "crash", "unnoticed"} :
    wifi_api_disconnect(failAt, delOut)

\* ------------------------------------------------------ wifi_api_alter_sta

\* Variant: the connect command is issued before the disconnect command.
AlterCalls_ConnectFirst ==
  << "esp_wifi_get_config", "esp_wifi_set_config", "esp_wifi_connect",
     "esp_wifi_disconnect" >>

\* The calls wifi_api_alter_sta makes, in order; it checks none of them.
AlterCalls ==
  << "esp_wifi_get_config", "esp_wifi_set_config", "esp_wifi_disconnect",
     "esp_wifi_connect" >>

\* Lines 279-294.  failAt: the first call that reports an error (0: none).
wifi_api_alter_sta(failAt) ==
  /\ pc = "idle"
  /\ calls' = AlterCalls
  /\ collabErr' = IF failAt = 0 THEN "none" ELSE AlterCalls[failAt]
  /\ pendingConnect' = PendingAfter(pendingConnect, 0, 1)
  /\ ret' = ESP_OK
  /\ lastOp' = "wifi_api_alter_sta"
  /\ UNCHANGED <<pc, s_retry_num, s_ip_semaphore, semCount, liveSems,
                 instance_any_id, instance_got_ip, regAny, regIp, shutdownHook,
                 state, signalBy, discRun, runGives, absorbed>>

AlterSta == \E failAt \in 0..Len(AlterCalls) : wifi_api_alter_sta(failAt)

\* ----------------------------------------------------------- wifi_api_scan

\* Line 69: the capacity of ap_info handed to esp_wifi_scan_get_ap_records.
SCAN_CAPACITY == 10

\* wifi_auth_mode_t values the code names.
WIFI_AUTH_OPEN == 0
WIFI_AUTH_WEP == 1
WIFI_AUTH_WPA_PSK == 2
WIFI_AUTH_WPA2_PSK == 3
WIFI_AUTH_WPA_WPA2_PSK == 4

\* authmode values the network stack reports in the model: the five the code
\* names and two it does not.
AuthCodes == {0, 1, 2, 3, 4, 5, 99}

\* Variant: the WPA and WPA2 tests are exchanged.
AuthModeName_Swapped(authmode) ==
  IF authmode = WIFI_AUTH_OPEN THEN "WIFI_AUTH_OPEN"
  ELSE IF authmode = WIFI_AUTH_WEP THEN "WIFI_AUTH_WEP"
  ELSE IF authmode = WIFI_AUTH_WPA2_PSK THEN "WIFI_AUTH_WPA_PSK"
  ELSE IF authmode = WIFI_AUTH_WPA_PSK THEN "WIFI_AUTH_WPA2_PSK"
  ELSE IF authmode = WIFI_AUTH_WPA_WPA2_PSK THEN "WIFI_AUTH_WPA_WPA2_PSK"
  ELSE "WIFI_AUTH_UNKNOWN"

\* Lines 90-100: the name logged for an authmode.
AuthModeName(authmode) ==
  IF authmode = WIFI_AUTH_OPEN THEN "WIFI_AUTH_OPEN"
  ELSE IF authmode = WIFI_AUTH_WEP THEN "WIFI_AUTH_WEP"
  ELSE IF authmode = WIFI_AUTH_WPA_PSK THEN "WIFI_AUTH_WPA_PSK"
  ELSE IF authmode = WIFI_AUTH_WPA2_PSK THEN "WIFI_AUTH_WPA2_PSK"
  ELSE IF authmode = WIFI_AUTH_WPA_WPA2_PSK THEN "WIFI_AUTH_WPA_WPA2_PSK"
  ELSE "WIFI_AUTH_UNKNOWN"

\* Line 81: esp_wifi_scan_get_ap_records(&number, ap_info) stores at most
\* `number` records and sets number to how many it stored.
RecordsStored(number, found) == Min(number, found)

\* The calls wifi_api_scan makes before it logs the records, each under
\* ESP_ERROR_CHECK.
ScanCalls ==
  << "esp_wifi_scan_start", "esp_wifi_scan_get_ap_num",
     "esp_wifi_scan_get_ap_records" >>

\* Lines 65-103.  failAt: the call that reports an error (0: none); found:
\* the access points the scan found; c1, c2: their authmode, alternating.
\* After the calls, `calls` holds one entry per record logged: the record's
\* authmode and the name logged for it.
wifi_api_scan(failAt, found, c1, c2) ==
  /\ pc = "idle"
  /\ LET number == RecordsStored(SCAN_CAPACITY, found)
         code(i) == IF i % 2 = 1 THEN c1 ELSE c2
         logged == [i \in 1..number |->
                      ToString(code(i)) \o ":" \o AuthModeName(code(i))]
     IN /\ calls' = IF failAt = 0 THEN ScanCalls \o logged
                                  ELSE SubSeq(ScanCalls, 1, failAt)
        /\ collabErr' = IF failAt = 0 THEN "none" ELSE ScanCalls[failAt]
        /\ pc' = IF failAt = 0 THEN "idle" ELSE "aborted"
  /\ ret' = "none"
  /\ lastOp' = "wifi_api_scan"
  /\ UNCHANGED <<s_retry_num, s_ip_semaphore, semCount, liveSems,
                 instance_any_id, instance_got_ip, regAny, regIp, shutdownHook,
                 pendingConnect, state, signalBy, discRun, runGives, absorbed>>

Scan ==
  \E failAt \in 0..Len(ScanCalls), found \in 0..MaxFound, c1, c2 \in AuthCodes :
    wifi_api_scan(failAt, found, c1, c2)

\* ------------------------------------------------------- the specifications

Next ==
  \/ Configure
  \/ ConfigureWake
  \/ Disconnect
  \/ AlterSta
  \/ EventHandler

Spec == Init /\ [][Next]_vars

\* wifi_api_scan alone: it reads and writes none of the supervisor's state.
ScanNext == Scan

SpecScan == Init /\ [][ScanNext]_vars

TypeOK ==
  /\ pc \in {"idle", "blocked", "aborted"}
  /\ ret \in {"none", ESP_OK, ESP_FAIL, ESP_ERR}
  /\ s_retry_num \in 0..MAX_RETRY
  /\ s_ip_semaphore \in {"NULL", "live", "deleted"}
  /\ semCount \in 0..1
  /\ liveSems \in 0..MaxInstances
  /\ regAny \in 0..MaxInstances
  /\ regIp \in 0..MaxInstances
  /\ pendingConnect \in 0..MaxPending
  /\ state \in {"Idle", "Connecting", "Connected", "Failed"}

\* The network stack answers every connect command with a station-disconnected
\* or an address-acquired notification.
AnswerConnect ==
  /\ pendingConnect > 0
  /\ \/ wifi_api_event_handler(WIFI_EVENT_STA_DISCONNECTED)
     \/ wifi_api_event_handler(IP_EVENT_STA_GOT_IP)

\* Spec with the scheduling the liveness claims assume: connect commands are
\* answered, and a task whose xSemaphoreTake can return is run.
SpecLive == Spec /\ WF_vars(AnswerConnect) /\ WF_vars(ConfigureWake)

\* ------------------------------------------------------------------ claims

Blocked == pc = "blocked"
Returned == pc = "idle"
Aborted == pc = "aborted"
Handled(ev) == lastOp = ev

\* C1: wifi_api_configure returns ESP_OK iff the signal that woke the caller
\* was raised by an address-acquired notification, and returns ESP_FAIL when
\* it was raised because the retry budget was exhausted.
C1_ResultTellsOutcome ==
  [][(lastOp' = "wifi_api_configure_wake" /\ Returned')
       => /\ (ret' = ESP_OK) <=> (signalBy = "got_ip")
          /\ (signalBy = "exhausted") => (ret' = ESP_FAIL)]_vars

\* C2: a station-disconnected notification handled while s_retry_num < MAX_RETRY
\* adds one to s_retry_num, issues exactly one connect command and leaves the
\* signal as it was (a blocked caller stays blocked), whatever the state before.
C2_DisconnectBelowBudgetRetries ==
  [][(lastOp' = WIFI_EVENT_STA_DISCONNECTED /\ s_retry_num < MAX_RETRY)
       => /\ s_retry_num' = s_retry_num + 1
          /\ calls' = <<"esp_wifi_connect">>
          /\ semCount' = semCount /\ signalBy' = signalBy /\ pc' = pc
          /\ state' = "Connecting"]_vars

C2_Witness ==
  /\ Handled(WIFI_EVENT_STA_DISCONNECTED) /\ calls = <<"esp_wifi_connect">>
  /\ s_retry_num = MAX_RETRY /\ Blocked /\ semCount = 0 /\ shutdownHook

\* C3: a station-disconnected notification handled while s_retry_num = MAX_RETRY
\* raises the signal exactly once, leaves state Failed and s_retry_num
\* unchanged, and issues no connect command.
\* (The raise is the one xSemaphoreGive call of the step; a live semaphore is
\* full after it.)
C3_DisconnectAtBudgetFails ==
  [][(lastOp' = WIFI_EVENT_STA_DISCONNECTED /\ s_retry_num = MAX_RETRY)
       => /\ calls' = <<"xSemaphoreGive">>
          /\ s_retry_num' = s_retry_num
          /\ state' = "Failed"
          /\ (s_ip_semaphore = "live") => (semCount' = 1 /\ pc' = pc)]_vars

C3_Witness ==
  /\ Handled(WIFI_EVENT_STA_DISCONNECTED) /\ calls = <<"xSemaphoreGive">>
  /\ state = "Failed" /\ s_retry_num = MAX_RETRY
  /\ Blocked /\ semCount = 1 /\ signalBy = "exhausted"

\* C4: an address-acquired notification handled at any retry count and in any
\* state sets s_retry_num to 0 and raises the signal exactly once.
C4_GotIpResetsAndSignals ==
  [][(lastOp' = IP_EVENT_STA_GOT_IP)
       => /\ s_retry_num' = 0
          /\ calls' = <<"xSemaphoreGive">>
          /\ state' = "Connected"
          /\ (s_ip_semaphore = "live") => (semCount' = 1 /\ pc' = pc)]_vars

C4_Witness ==
  /\ Handled(IP_EVENT_STA_GOT_IP) /\ calls = <<"xSemaphoreGive">>
  /\ absorbed = MAX_RETRY /\ s_retry_num = 0 /\ state = "Connected"
  /\ Blocked /\ semCount = 1 /\ signalBy = "got_ip"

\* C5: when the network stack answers every connect command, a caller blocked
\* in wifi_api_configure is eventually woken; until the signal is raised at
\* most MAX_RETRY disconnects were retried, none of which raised the signal,
\* and the signal is raised only by address acquisition or by exhaustion.
C5_BlockedCallerIsWoken ==
  /\ [](Blocked /\ signalBy = "none" => semCount = 0 /\ absorbed <= MAX_RETRY)
  /\ [](Blocked /\ semCount = 1 => signalBy \in {"got_ip", "exhausted"})
  /\ (Blocked ~> lastOp = "wifi_api_configure_wake")

C5_Witness ==
  /\ lastOp = "wifi_api_configure_wake" /\ Returned
  /\ state = "Failed" /\ s_retry_num = MAX_RETRY /\ discRun = MAX_RETRY + 1

\* C6: from s_retry_num = 0 and with no address acquisition in between,
\* MAX_RETRY + 1 = 11 station-disconnected notifications end in state Failed
\* with s_retry_num = MAX_RETRY; the signal is raised once in the run, by the
\* last of them and by none of the first MAX_RETRY.
C6_ElevenDisconnectsFail ==
  /\ MAX_RETRY = 10
  /\ discRun <= MAX_RETRY => (s_retry_num = discRun /\ runGives = 0)
  /\ discRun = MAX_RETRY + 1 => (s_retry_num = MAX_RETRY /\ runGives = 1)
  /\ (discRun = MAX_RETRY + 1 /\ Handled(WIFI_EVENT_STA_DISCONNECTED))
       => (state = "Failed" /\ calls = <<"xSemaphoreGive">>)

C6_Witness ==
  /\ discRun = MAX_RETRY + 1 /\ Handled(WIFI_EVENT_STA_DISCONNECTED)
  /\ state = "Failed" /\ s_retry_num = MAX_RETRY /\ runGives = 1
  /\ semCount = 1 /\ signalBy = "exhausted"

\* C7: from s_retry_num = 0, k <= MAX_RETRY station-disconnected notifications
\* and then one address-acquired notification end in state Connected with
\* s_retry_num = 0; the signal is raised once in the run, by the
\* address-acquired notification and by none of the disconnects.
C7_DisconnectsThenGotIpConnects ==
  [][(lastOp' = IP_EVENT_STA_GOT_IP /\ discRun <= MAX_RETRY)
       => /\ s_retry_num = discRun /\ runGives = 0
          /\ calls' = <<"xSemaphoreGive">>
          /\ s_retry_num' = 0 /\ state' = "Connected"
          /\ (s_ip_semaphore = "live") => (semCount' = 1)]_vars

C7_Witness ==
  /\ Handled(IP_EVENT_STA_GOT_IP) /\ absorbed = 3 /\ Blocked
  /\ state = "Connected" /\ s_retry_num = 0 /\ semCount = 1 /\ signalBy = "got_ip"

\* C8: when a call of wifi_api_configure has issued its connect command and
\* blocks on the signal, s_retry_num is 0, whatever it was before the call.
C8_ConfigureResetsRetries ==
  (lastOp = "wifi_api_configure" /\ Blocked) => s_retry_num = 0

\* C9: a second wifi_api_disconnect right after a first one that returned
\* (after a configure that registered the subscriptions) does not abort, does
\* not delete the semaphore again and does not unregister a subscription
\* already unregistered.
C9_SecondDisconnectIsSafe ==
  [][(/\ lastOp = "wifi_api_disconnect" /\ Returned
      /\ instance_any_id # "NULL" /\ instance_got_ip # "NULL"
      /\ lastOp' = "wifi_api_disconnect")
       => /\ ~Aborted'
          /\ ~Has(calls', "vSemaphoreDelete:deleted")
          /\ ~Has(calls', "unregister:any_id:stale")
          /\ ~Has(calls', "unregister:got_ip:stale")]_vars

\* C10: wifi_api_disconnect called while neither subscription was ever
\* registered skips the unregister step and does not abort.
C10_DisconnectWithoutSubscriptions ==
  [][(/\ instance_any_id = "NULL" /\ instance_got_ip = "NULL"
      /\ lastOp' = "wifi_api_disconnect")
       => /\ ~Aborted'
          /\ ~Has(calls', "unregister:any_id:NULL")
          /\ ~Has(calls', "unregister:got_ip:NULL")]_vars

\* Position in cs of the first call named c (0: none).
IndexOf(cs, c) ==
  IF Has(cs, c) THEN CHOOSE i \in 1..Len(cs) :
                       cs[i] = c /\ \A j \in 1..(i - 1) : cs[j] # c
                ELSE 0

\* C11: wifi_api_alter_sta, in any supervisor state, issues set-config, then
\* a disconnect command, then a connect command, and returns without taking
\* the signal; s_retry_num and the signal are as before the call.
C11_AlterIsFireAndForget ==
  [][(lastOp' = "wifi_api_alter_sta")
       => /\ 0 < IndexOf(calls', "esp_wifi_set_config")
          /\ IndexOf(calls', "esp_wifi_set_config")
               < IndexOf(calls', "esp_wifi_disconnect")
          /\ IndexOf(calls', "esp_wifi_disconnect")
               < IndexOf(calls', "esp_wifi_connect")
          /\ ~Has(calls', "xSemaphoreTake")
          /\ Returned' /\ ret' # "none"
          /\ s_retry_num' = s_retry_num
          /\ s_ip_semaphore' = s_ip_semaphore /\ semCount' = semCount
          /\ signalBy' = signalBy /\ state' = state]_vars

C11_Witness ==
  /\ lastOp = "wifi_api_alter_sta" /\ Returned
  /\ state = "Failed" /\ s_retry_num = MAX_RETRY /\ semCount = 0

\* C12: wifi_api_alter_sta and wifi_api_disconnect return the first error a
\* call into the network stack reports and make no call after it; they
\* return ESP_OK only when every call succeeded.
C12_FirstErrorIsReturned ==
  [][(lastOp' \in {"wifi_api_alter_sta", "wifi_api_disconnect"})
       => /\ (collabErr' # "none")
               => /\ Returned' /\ ret' \notin {"none", ESP_OK}
                  /\ calls'[Len(calls')] = collabErr'
          /\ (ret' = ESP_OK) => (collabErr' = "none")]_vars

\* The initialization calls of wifi_api_configure: storage init, netif init,
\* event-loop creation, wifi init, interface creation, set-storage, set-mode,
\* start.
InitCalls ==
  { "nvs_flash_init", "esp_netif_init", "esp_event_loop_create_default",
    "esp_wifi_init", "esp_netif_create_wifi", "esp_wifi_set_storage",
    "esp_wifi_set_mode", "esp_wifi_start" }

\* C13: when an initialization call of wifi_api_configure fails, configure
\* stops there and returns an error: no later call is made, no subscription
\* is registered, no connect command is issued and the caller does not block.
C13_InitFailureIsReturned ==
  [][(lastOp' = "wifi_api_configure" /\ collabErr' \in InitCalls)
       => /\ Returned' /\ ret' \notin {"none", ESP_OK}
          /\ calls'[Len(calls')] = collabErr'
          /\ regAny' = regAny /\ regIp' = regIp
          /\ ~Has(calls', "esp_wifi_connect")]_vars

\* C14: a wifi_api_configure woken by the exhausted retry budget does not
\* register the shutdown hook; the hook is registered only by a call that
\* returns ESP_OK.
C14_NoHookOnFailure ==
  [][(lastOp' = "wifi_api_configure_wake")
       => /\ (signalBy = "exhausted")
               => /\ ~Has(calls', "esp_register_shutdown_handler")
                  /\ shutdownHook' = shutdownHook
          /\ (shutdownHook' /\ ~shutdownHook) => (Returned' /\ ret' = ESP_OK)]_vars

\* C15: when xSemaphoreCreateBinary fails, wifi_api_configure returns ESP_FAIL
\* having registered no subscription and issued no connect command, without
\* blocking, and leaves everything a later call of configure depends on as it
\* was, so that the call can be repeated.
C15_SemaphoreFailureIsRecoverable ==
  [][(lastOp' = "wifi_api_configure" /\ collabErr' = "xSemaphoreCreateBinary")
       => /\ Returned' /\ ret' = ESP_FAIL
          /\ ~Has(calls', "register:any_id") /\ ~Has(calls', "register:got_ip")
          /\ ~Has(calls', "esp_wifi_connect")
          /\ regAny' = regAny /\ regIp' = regIp /\ liveSems' = liveSems
          /\ instance_any_id' = instance_any_id
          /\ instance_got_ip' = instance_got_ip
          /\ pendingConnect' = pendingConnect /\ s_retry_num' = s_retry_num]_vars

C15_Witness ==
  /\ lastOp = "wifi_api_configure" /\ collabErr = "xSemaphoreCreateBinary"
  /\ Returned /\ ret = ESP_FAIL /\ s_ip_semaphore = "NULL"
  /\ regAny = 0 /\ regIp = 0 /\ liveSems = 0

\* C16 as stated: the handler raises the signal at most once between two
\* consecutive takes, and between its creation and the first take; that is,
\* every raise finds the semaphore empty.
C16_OneRaisePerTake ==
  [][(lastOp' \in Events /\ Has(calls', "xSemaphoreGive")
        /\ s_ip_semaphore = "live")
       => semCount = 0]_vars

\* C16 as amended: the handler may raise the signal again before it is taken;
\* at most one raise is ever pending, a raise made while one is pending
\* changing nothing (it is coalesced with the pending one).
C16_RaisesAreCoalesced ==
  /\ [](semCount \in {0, 1})
  /\ [][(lastOp' \in Events /\ Has(calls', "xSemaphoreGive")
           /\ s_ip_semaphore = "live")
          => /\ semCount' = 1
             /\ (semCount = 1) => (signalBy' = signalBy /\ pc' = pc)]_vars

\* A second raise reached the semaphore of a caller that has not taken the
\* first one yet.
C16_Witness ==
  /\ Blocked /\ semCount = 1 /\ signalBy = "got_ip"
  /\ Handled(WIFI_EVENT_STA_DISCONNECTED) /\ calls = <<"xSemaphoreGive">>

\* The entries a scan may log: an authmode and the name claimed for it.
ExpectedAuthLines ==
  { "0:WIFI_AUTH_OPEN", "1:WIFI_AUTH_WEP", "2:WIFI_AUTH_WPA_PSK",
    "3:WIFI_AUTH_WPA2_PSK", "4:WIFI_AUTH_WPA_WPA2_PSK",
    "5:WIFI_AUTH_UNKNOWN", "99:WIFI_AUTH_UNKNOWN" }

\* C17: wifi_api_scan logs at most 10 records per call, naming authmode 0
\* Open, 1 WEP, 2 WPA-PSK, 3 WPA2-PSK, 4 WPA/WPA2-PSK and any other Unknown.
C17_ScanClassifiesAuthModes ==
  (lastOp = "wifi_api_scan" /\ Returned)
    => /\ Len(calls) - Len(ScanCalls) <= 10
       /\ \A i \in (Len(ScanCalls) + 1)..Len(calls) : calls[i] \in ExpectedAuthLines

C17_Witness ==
  /\ lastOp = "wifi_api_scan" /\ Returned
  /\ Len(calls) = Len(ScanCalls) + 10
  /\ calls[4] = "99:WIFI_AUTH_UNKNOWN" /\ calls[5] = "3:WIFI_AUTH_WPA2_PSK"

\* C18: in every reachable state 0 <= s_retry_num <= MAX_RETRY.
C18_RetriesWithinBudget == s_retry_num >= 0 /\ s_retry_num <= MAX_RETRY

\* The counter stayed at the budget through disconnects beyond it.
C18_Witness ==
  /\ s_retry_num = MAX_RETRY /\ discRun = MAX_RETRY + 2
  /\ Handled(WIFI_EVENT_STA_DISCONNECTED)

\* C19: whenever a subscription of the handler is registered, s_ip_semaphore
\* refers to a semaphore that was created and not deleted, so that the
\* handler never gives a null or deleted semaphore.
C19_SemaphoreLiveWhileSubscribed ==
  /\ (regAny > 0 \/ regIp > 0) => s_ip_semaphore = "live"
  /\ (lastOp \in Events /\ Has(calls, "xSemaphoreGive")) => ~Aborted

\* C20: at most one registration exists per subscription and at most one
\* semaphore is live, under any sequence of configure and disconnect calls.
C20_SingleInstance == regAny <= 1 /\ regIp <= 1 /\ liveSems <= 1

====
